---- MODULE Spec2Model ----
(***************************************************************************)
(* Model of pootle/core/mixins/treeitem.py: the TreeItem mixin, its cached *)
(* aggregate getters and its cache invalidation protocol.                  *)
(*                                                                         *)
(* The node graph is a diamond, A -> {B, C} -> D.  B and D are node types  *)
(* that override the raw providers (_get_total_wordcount,                  *)
(* _get_last_action); A and C keep the defaults of the base class.         *)
(* All eight cached methods are modelled.  The data behind two of them     *)
(* varies in every specification, one of each shape: get_total_wordcount   *)
(* (own raw value plus _sum over the children) and get_last_action (max by *)
(* a record field over own raw value and the children); the data behind    *)
(* the other six varies where a specification says so.                     *)
(***************************************************************************)
EXTENDS Integers, Sequences, FiniteSets, TLC

\* Raw word counts range over 0..MaxCount, action mtimes over 0..MaxTime.
MaxCount == 1
MaxTime == 1
\* At most MaxPending names are flagged for deletion at a time, over all nodes.
MaxPending == 2
\* In the specification of the max-by-field law mtimes range over 0..MaxStamp.
MaxStamp == 2

\* The number of calls the step-by-step thread makes.
MaxCalls == 2

VARIABLES
    raw,          \* the underlying data: <<node, method>> -> raw value
    cache,        \* django cache: partial map <<cachekey, method>> -> value
    flagged,      \* node -> self._flagged_for_deletion
    initialized,  \* node -> self.initialized
    children,     \* node -> self.children (<<>> stands for None)
    calls,        \* node -> how many times its get_children() has run
    failing,      \* the nodes whose raw providers raise an exception
    graph,        \* "acyclic", or "cyclic": D has A as a child as well
    proc,         \* a thread making one call, one step at a time
    obs,          \* what the last call returned and invoked
    reader,       \* a thread in get_total_wordcount: its call stack and result
    writer,       \* a thread changing a raw value and invalidating it
    old           \* the raw data before the writer's change

conc == <<reader, writer, old>>

\* What the one-call-at-a-time actions never touch.
env == <<failing, graph, proc>>

vars == <<raw, cache, flagged, initialized, children, calls, obs, conc, env>>

----------------------------------------------------------------------------
\* CachedMethods

CHECKS == "get_checks"
TOTAL == "get_total_wordcount"
TRANSLATED == "get_translated_wordcount"
FUZZY == "get_fuzzy_wordcount"
LAST_ACTION == "get_last_action"
SUGGESTIONS == "get_suggestion_count"
MTIME == "get_mtime"
LAST_UPDATED == "get_last_updated"

\* The attributes in the order of dir().
get_all ==
    <<CHECKS, FUZZY, LAST_ACTION, LAST_UPDATED, MTIME, SUGGESTIONS, TOTAL,
      TRANSLATED>>

\* The two methods whose data varies in every specification.
Varied == {LAST_ACTION, TOTAL}

\* The four getters of the shape own raw value + _sum(name).
Counts == {TOTAL, TRANSLATED, FUZZY, SUGGESTIONS}

Range(seq) == {seq[i] : i \in 1..Len(seq)}

----------------------------------------------------------------------------
\* The node graph: what the overridden get_children / get_parents return.

Nodes == {"A", "B", "C", "D"}

get_children(n) ==
    CASE n = "A" -> <<"B", "C">>
      [] n = "B" -> <<"D">>
      [] n = "C" -> <<"D">>
      [] n = "D" -> IF graph = "cyclic" THEN <<"A">> ELSE <<>>

get_parents(n) ==
    CASE n = "A" -> IF graph = "cyclic" THEN <<"D">> ELSE <<>>
      [] n = "B" -> <<"A">>
      [] n = "C" -> <<"A">>
      [] n = "D" -> <<"B", "C">>

get_cachekey(n) == n

\* iri_to_uri(itemkey + ":" + key): one cache key per (node, method).
CacheKey(n, key) == <<get_cachekey(n), key>>

\* Nodes whose class overrides the raw providers.
DataNodes == {"B", "D"}

NodeId(n) ==
    CASE n = "A" -> 1
      [] n = "B" -> 2
      [] n = "C" -> 3
      [] n = "D" -> 4

\* The base class's _get_last_action: {'id': 0, 'mtime': 0, 'snippet': ''}.
DefaultAction == [id |-> 0, mtime |-> 0]

\* The actions (submissions) recorded on node n.
Actions(n) == {[id |-> NodeId(n), mtime |-> t] : t \in 0..MaxTime}

RawValues(n, key) == IF key = TOTAL THEN 0..MaxCount ELSE Actions(n)

\* The raw providers, as the node types override them.
_get_total_wordcount(n) == raw[<<n, TOTAL>>]

_get_translated_wordcount(n) == raw[<<n, TRANSLATED>>]

_get_fuzzy_wordcount(n) == raw[<<n, FUZZY>>]

_get_suggestion_count(n) == raw[<<n, SUGGESTIONS>>]

_get_checks(n) == raw[<<n, CHECKS>>]

_get_last_action(n) == raw[<<n, LAST_ACTION>>]

_get_mtime(n) == raw[<<n, MTIME>>]

_get_last_updated(n) == raw[<<n, LAST_UPDATED>>]

\* What the base class's providers return (datetime_min is 0 here).
Default(key) ==
    CASE key \in Counts -> 0
      [] key = CHECKS -> [unit_count |-> 0, checks |-> <<>>]
      [] key = LAST_ACTION -> DefaultAction
      [] key = MTIME -> 0
      [] key = LAST_UPDATED -> [id |-> 0, creation_time |-> 0]

----------------------------------------------------------------------------
\* The cache store (django.core.cache) and pootle_misc.util's accessors.

Put(c, k, v) == [x \in DOMAIN c \cup {k} |-> IF x = k THEN v ELSE c[x]]

Delete(c, ks) == [x \in DOMAIN c \ ks |-> c[x]]

set_cached_value(c, n, key, v) == Put(c, CacheKey(n, key), v)

\* <<>> when the entry is absent (None), <<v>> otherwise.
get_cached_value(c, n, key) ==
    IF CacheKey(n, key) \in DOMAIN c THEN <<c[CacheKey(n, key)]>> ELSE <<>>

\* pootle_misc.util.dictsum: the key-wise sum, a missing key counting as 0.
dictsum(x, y) ==
    [k \in DOMAIN x \cup DOMAIN y |->
        (IF k \in DOMAIN x THEN x[k] ELSE 0) + (IF k \in DOMAIN y THEN y[k] ELSE 0)]

----------------------------------------------------------------------------
\* A call's working state: the fields a handler reads and writes, and the
\* raw providers (raws) and child getters (gets) it has invoked so far.

Start ==
    [cache |-> cache, flagged |-> flagged, initialized |-> initialized,
     children |-> children, calls |-> calls, raws |-> {}, gets |-> {}]

\* A call that returns v, and a call that an exception leaves.
Returned(st, v) == [st |-> st, val |-> v, exc |-> FALSE]

Raised(st) == [st |-> st, val |-> <<>>, exc |-> TRUE]

\* initialize_children without the test of self.initialized.
initialize_children_unguarded(st, n) ==
    [st EXCEPT !.children[n] = get_children(n), !.initialized[n] = TRUE,
               !.calls[n] = @ + 1]

initialize_children(st, n) ==
    IF ~st.initialized[n]
    THEN [st EXCEPT !.children[n] = get_children(n), !.initialized[n] = TRUE,
                    !.calls[n] = @ + 1]
    ELSE st

RECURSIVE sum(_)
sum(vals) == IF vals = <<>> THEN 0 ELSE Head(vals) + sum(Tail(vals))

\* key=lambda x: x['mtime'] if 'mtime' in x else 0
MtimeKey(x) == IF "mtime" \in DOMAIN x THEN x.mtime ELSE 0

\* Python's max(seq, key=...): the first element whose key is maximal.
RECURSIVE MaxFrom(_, _)
MaxFrom(best, rest) ==
    IF rest = <<>> THEN best
    ELSE MaxFrom(IF MtimeKey(Head(rest)) > MtimeKey(best) THEN Head(rest) ELSE best,
                 Tail(rest))

max(vals) == MaxFrom(Head(vals), Tail(vals))

\* key=lambda x: x['creation_time'] if 'creation_time' in x else 0
CreationTimeKey(x) == IF "creation_time" \in DOMAIN x THEN x.creation_time ELSE 0

RECURSIVE MaxFromCreationTime(_, _)
MaxFromCreationTime(best, rest) ==
    IF rest = <<>> THEN best
    ELSE MaxFromCreationTime(
             IF CreationTimeKey(Head(rest)) > CreationTimeKey(best)
             THEN Head(rest) ELSE best,
             Tail(rest))

\* max() with no key, over timestamps.
RECURSIVE MaxFromPlain(_, _)
MaxFromPlain(best, rest) ==
    IF rest = <<>> THEN best
    ELSE MaxFromPlain(IF Head(rest) > best THEN Head(rest) ELSE best, Tail(rest))

\* The loop of get_checks over the children's results.
RECURSIVE AddChecks(_, _)
AddChecks(result, items) ==
    IF items = <<>> THEN result
    ELSE AddChecks([unit_count |-> result.unit_count + Head(items).unit_count,
                    checks |-> dictsum(result.checks, Head(items).checks)],
                   Tail(items))

RECURSIVE getattr(_, _, _)
RECURSIVE CallEach(_, _, _)

\* A loop of calls that an exception has left, and one whose first call
\* returned v and whose other calls ended as t.
Broken(st) == [st |-> st, vals |-> <<>>, exc |-> TRUE]

Cons(v, t) == [st |-> t.st, vals |-> <<v>> \o t.vals, exc |-> t.exc]

\* The loop going on to the next child after a child's getter has raised.
CallEach_skip_failed(st, items, name) ==
    IF items = <<>> THEN [st |-> st, vals |-> <<>>, exc |-> FALSE]
    ELSE LET h == getattr([st EXCEPT !.gets = @ \cup {Head(items)}],
                          Head(items), name)
             t == CallEach(h.st, Tail(items), name)
         IN  [st |-> t.st,
              vals |-> (IF h.exc THEN <<>> ELSE <<h.val>>) \o t.vals,
              exc |-> t.exc]

\* [getattr(item, name)() for item in items], left to right; an exception
\* in one call ends the loop.
CallRest(h, items, name) ==
    IF h.exc THEN Broken(h.st) ELSE Cons(h.val, CallEach(h.st, items, name))

CallEach(st, items, name) ==
    IF items = <<>> THEN [st |-> st, vals |-> <<>>, exc |-> FALSE]
    ELSE CallRest(getattr([st EXCEPT !.gets = @ \cup {Head(items)}],
                          Head(items), name),
                  Tail(items), name)

\* _sum that counts the children's values instead of adding them up.
_sum_count(st, n, name) ==
    LET r == CallEach(st, st.children[n], name)
    IN  IF r.exc THEN Raised(r.st) ELSE Returned(r.st, Len(r.vals))

\* sum([...]) of the values the loop r has collected.
Summed(r) == IF r.exc THEN Raised(r.st) ELSE Returned(r.st, sum(r.vals))

_sum(st, n, name) == Summed(CallEach(st, st.children[n], name))

\* A raw provider of n is called: it is recorded, and it raises when the
\* node's data source fails.
Provide(st, n) == [st EXCEPT !.raws = @ \cup {n}]

\* own + self._sum(name), where the sum ended as kids.
Added(own, kids) ==
    IF kids.exc THEN Raised(kids.st) ELSE Returned(kids.st, own + kids.val)

\* The undecorated body of get_total_wordcount.
total_wordcount(st, n) ==
    LET s1 == Provide(initialize_children(st, n), n)
    IN  IF n \in failing THEN Raised(s1)
        ELSE Added(_get_total_wordcount(n), _sum(s1, n, TOTAL))

\* The undecorated body of get_translated_wordcount.
translated_wordcount(st, n) ==
    LET s1 == Provide(initialize_children(st, n), n)
    IN  IF n \in failing THEN Raised(s1)
        ELSE Added(_get_translated_wordcount(n), _sum(s1, n, TRANSLATED))

\* The undecorated body of get_fuzzy_wordcount.
fuzzy_wordcount(st, n) ==
    LET s1 == Provide(initialize_children(st, n), n)
    IN  IF n \in failing THEN Raised(s1)
        ELSE Added(_get_fuzzy_wordcount(n), _sum(s1, n, FUZZY))

\* The undecorated body of get_suggestion_count.
suggestion_count(st, n) ==
    LET s1 == Provide(initialize_children(st, n), n)
    IN  IF n \in failing THEN Raised(s1)
        ELSE Added(_get_suggestion_count(n), _sum(s1, n, SUGGESTIONS))

\* get_last_action's max() that takes the last of the records.
last_action_last(st, n) ==
    LET s1 == Provide(initialize_children(st, n), n)
    IN  IF n \in failing THEN Raised(s1)
        ELSE LET kids == CallEach(s1, s1.children[n], LAST_ACTION)
                 all == <<_get_last_action(n)>> \o kids.vals
             IN  IF kids.exc THEN Raised(kids.st)
                 ELSE Returned(kids.st, all[Len(all)])

\* max([own] + [...], key=...) over the values the loop kids has collected.
Latest(own, kids) ==
    IF kids.exc THEN Raised(kids.st)
    ELSE Returned(kids.st, max(<<own>> \o kids.vals))

\* The undecorated body of get_last_action.
last_action(st, n) ==
    LET s1 == Provide(initialize_children(st, n), n)
    IN  IF n \in failing THEN Raised(s1)
        ELSE Latest(_get_last_action(n),
                    CallEach(s1, s1.children[n], LAST_ACTION))

\* max([own] + [...]) over the values the loop kids has collected.
LatestPlain(own, kids) ==
    IF kids.exc THEN Raised(kids.st)
    ELSE Returned(kids.st, MaxFromPlain(own, kids.vals))

\* The undecorated body of get_mtime.
mtime(st, n) ==
    LET s1 == Provide(initialize_children(st, n), n)
    IN  IF n \in failing THEN Raised(s1)
        ELSE LatestPlain(_get_mtime(n), CallEach(s1, s1.children[n], MTIME))

\* max([own] + [...], key=creation_time) over the values of the loop kids.
LatestCreated(own, kids) ==
    IF kids.exc THEN Raised(kids.st)
    ELSE Returned(kids.st, MaxFromCreationTime(own, kids.vals))

\* The undecorated body of get_last_updated.
last_updated(st, n) ==
    LET s1 == Provide(initialize_children(st, n), n)
    IN  IF n \in failing THEN Raised(s1)
        ELSE LatestCreated(_get_last_updated(n),
                           CallEach(s1, s1.children[n], LAST_UPDATED))

\* The loop of get_checks over the results the loop kids has collected.
Checked(result, kids) ==
    IF kids.exc THEN Raised(kids.st)
    ELSE Returned(kids.st, AddChecks(result, kids.vals))

\* The undecorated body of get_checks: the raw provider comes first, the
\* children are loaded after it.
checks(st, n) ==
    IF n \in failing THEN Raised(Provide(st, n))
    ELSE LET s1 == initialize_children(Provide(st, n), n)
         IN  Checked(_get_checks(n), CallEach(s1, s1.children[n], CHECKS))

function(st, n, name) ==
    CASE name = TOTAL -> total_wordcount(st, n)
      [] name = TRANSLATED -> translated_wordcount(st, n)
      [] name = FUZZY -> fuzzy_wordcount(st, n)
      [] name = SUGGESTIONS -> suggestion_count(st, n)
      [] name = LAST_ACTION -> last_action(st, n)
      [] name = MTIME -> mtime(st, n)
      [] name = LAST_UPDATED -> last_updated(st, n)
      [] name = CHECKS -> checks(st, n)

\* The wrapper after the function has ended as r: store and return.
Stored(r, n, name) ==
    IF r.exc THEN r
    ELSE Returned([r.st EXCEPT !.cache = set_cached_value(@, n, name, r.val)],
                  r.val)

\* pootle_misc.util.getfromcache: return the entry when there is one, else
\* call the function, store its result and return it; an exception in the
\* function leaves the wrapper before the store.
getfromcache(st, n, name) ==
    IF CacheKey(n, name) \in DOMAIN st.cache
    THEN Returned(st, st.cache[CacheKey(n, name)])
    ELSE Stored(function(st, n, name), n, name)

\* get_total_wordcount with the @getfromcache decorator left off.
get_total_wordcount_undecorated(st, n) == total_wordcount(st, n)

get_total_wordcount(st, n) == getfromcache(st, n, TOTAL)

get_translated_wordcount(st, n) == getfromcache(st, n, TRANSLATED)

get_fuzzy_wordcount(st, n) == getfromcache(st, n, FUZZY)

get_suggestion_count(st, n) == getfromcache(st, n, SUGGESTIONS)

get_last_action(st, n) == getfromcache(st, n, LAST_ACTION)

get_mtime(st, n) == getfromcache(st, n, MTIME)

get_last_updated(st, n) == getfromcache(st, n, LAST_UPDATED)

get_checks(st, n) == getfromcache(st, n, CHECKS)

ERROR_UNIT_COUNT == "get_error_unit_count"

\* return check_stats['unit_count']
UnitCount(check_stats) ==
    IF check_stats.exc THEN check_stats
    ELSE Returned(check_stats.st, check_stats.val.unit_count)

get_error_unit_count(st, n) == UnitCount(get_checks(st, n))

getattr(st, n, name) ==
    CASE name = TOTAL -> get_total_wordcount(st, n)
      [] name = TRANSLATED -> get_translated_wordcount(st, n)
      [] name = FUZZY -> get_fuzzy_wordcount(st, n)
      [] name = SUGGESTIONS -> get_suggestion_count(st, n)
      [] name = LAST_ACTION -> get_last_action(st, n)
      [] name = MTIME -> get_mtime(st, n)
      [] name = LAST_UPDATED -> get_last_updated(st, n)
      [] name = CHECKS -> get_checks(st, n)
      [] name = ERROR_UNIT_COUNT -> get_error_unit_count(st, n)

\* One getter after another on the same node; an exception ends the run.
RECURSIVE CallAll(_, _, _)
CallAllRest(h, n, names) ==
    IF h.exc THEN Broken(h.st) ELSE Cons(h.val, CallAll(h.st, n, names))

CallAll(st, n, names) ==
    IF names = <<>> THEN [st |-> st, vals |-> <<>>, exc |-> FALSE]
    ELSE CallAllRest(getattr(st, n, Head(names)), n, Tail(names))

----------------------------------------------------------------------------
\* get_stats

\* The getters get_stats calls, in the order of the dict literal, and the
\* keys their results are stored under.
StatsCalls ==
    <<TOTAL, TRANSLATED, FUZZY, SUGGESTIONS, LAST_ACTION, ERROR_UNIT_COUNT,
      LAST_UPDATED>>

StatsRecord(vals) ==
    [total |-> vals[1], translated |-> vals[2], fuzzy |-> vals[3],
     suggestions |-> vals[4], lastaction |-> vals[5], critical |-> vals[6],
     lastupdated |-> vals[7]]

\* item.code
code(n) == n

\* The part of get_stats before if include_children.
Recorded(r) ==
    IF r.exc THEN Raised(r.st) ELSE Returned(r.st, StatsRecord(r.vals))

get_stats_own(st, n) ==
    Recorded(CallAll(initialize_children(st, n), n, StatsCalls))

\* for item in self.children: result['children'][code] = item.get_stats(False)
RECURSIVE StatsEach(_, _, _)
StatsRest(h, item, items, result) ==
    IF h.exc THEN h
    ELSE StatsEach(h.st, items, Put(result, code(item), h.val))

StatsEach(st, items, result) ==
    IF items = <<>> THEN Returned(st, result)
    ELSE StatsRest(get_stats_own(st, Head(items)), Head(items), Tail(items),
                   result)

\* get_stats that never adds the children.
get_stats_no_children(st, n, include_children) == get_stats_own(st, n)

\* result['children'] = {...}, where the loop over the children ended as kids.
WithChildren(own, kids) ==
    IF kids.exc THEN kids
    ELSE Returned(kids.st,
                  [k \in DOMAIN own.val \cup {"children"} |->
                      IF k = "children" THEN kids.val ELSE own.val[k]])

\* The part of get_stats from if include_children on.
get_stats_children(own, n, include_children) ==
    IF own.exc \/ ~include_children THEN own
    ELSE WithChildren(own, StatsEach(own.st, own.st.children[n], <<>>))

get_stats(st, n, include_children) ==
    get_stats_children(get_stats_own(st, n), n, include_children)

----------------------------------------------------------------------------
\* Invalidation

flag_for_deletion(st, n, args) == [st EXCEPT !.flagged[n] = @ \cup args]

RECURSIVE _clear_cache(_, _, _, _, _)
RECURSIVE ClearEach(_, _, _, _, _)

\* for p in items: p._clear_cache(keys, parents=..., children=...)
ClearEach(st, items, keys, parents, chldrn) ==
    IF items = <<>> THEN st
    ELSE ClearEach(_clear_cache(st, Head(items), keys, parents, chldrn),
                   Tail(items), keys, parents, chldrn)

\* _clear_cache with the walk to the parents left out.
_clear_cache_own_only(st, n, keys, parents, chldrn) ==
    LET s1 == [st EXCEPT !.cache = Delete(@, {CacheKey(n, k) : k \in keys})]
        s3 == IF chldrn THEN initialize_children(s1, n) ELSE s1
    IN  IF chldrn THEN ClearEach(s3, s3.children[n], keys, FALSE, TRUE) ELSE s1

\* _clear_cache that passes parents=False on to the parents: one level up.
_clear_cache_one_level(st, n, keys, parents, chldrn) ==
    LET s1 == [st EXCEPT !.cache = Delete(@, {CacheKey(n, k) : k \in keys})]
        s2 == IF parents
              THEN ClearEach(s1, get_parents(n), keys, FALSE, FALSE)
              ELSE s1
        s3 == IF chldrn THEN initialize_children(s2, n) ELSE s2
    IN  IF chldrn THEN ClearEach(s3, s3.children[n], keys, FALSE, TRUE) ELSE s2

\* _clear_cache that also deletes from the other parents of its children.
_clear_cache_down_and_up(st, n, keys, parents, chldrn) ==
    LET s1 == [st EXCEPT !.cache = Delete(@, {CacheKey(n, k) : k \in keys})]
        s2 == IF parents
              THEN ClearEach(s1, get_parents(n), keys, get_parents(n) # <<>>, FALSE)
              ELSE s1
        s3 == IF chldrn THEN initialize_children(s2, n) ELSE s2
    IN  IF chldrn
        THEN LET down == ClearEach(s3, s3.children[n], keys, FALSE, TRUE)
                 up == UNION {{p \in Range(get_parents(c)) : p # n} :
                                c \in Range(s3.children[n])}
             IN  [down EXCEPT !.cache = Delete(@, up \X keys)]
        ELSE s2

\* _clear_cache that goes on to the children whatever children says.
_clear_cache_always_children(st, n, keys, parents, chldrn) ==
    LET s1 == [st EXCEPT !.cache = Delete(@, {CacheKey(n, k) : k \in keys})]
        s2 == IF parents
              THEN ClearEach(s1, get_parents(n), keys, get_parents(n) # <<>>, FALSE)
              ELSE s1
        s3 == initialize_children(s2, n)
    IN  [ClearEach(s3, s3.children[n], keys, FALSE, FALSE) EXCEPT
            !.initialized = s2.initialized, !.children = s2.children,
            !.calls = s2.calls]

\* _clear_cache that leaves out the first of the parents.
_clear_cache_skip_first_parent(st, n, keys, parents, chldrn) ==
    LET s1 == [st EXCEPT !.cache = Delete(@, {CacheKey(n, k) : k \in keys})]
        s2 == IF parents /\ get_parents(n) # <<>>
              THEN ClearEach(s1, Tail(get_parents(n)), keys, TRUE, FALSE)
              ELSE s1
        s3 == IF chldrn THEN initialize_children(s2, n) ELSE s2
    IN  IF chldrn THEN ClearEach(s3, s3.children[n], keys, FALSE, TRUE) ELSE s2

\* In the loop over the parents the keyword parents is the list of parents
\* itself, which is not empty there and so is true.
_clear_cache(st, n, keys, parents, chldrn) ==
    LET s1 == [st EXCEPT !.cache = Delete(@, {CacheKey(n, k) : k \in keys})]
        s2 == IF parents
              THEN ClearEach(s1, get_parents(n), keys, get_parents(n) # <<>>, FALSE)
              ELSE s1
        s3 == IF chldrn THEN initialize_children(s2, n) ELSE s2
    IN  IF chldrn THEN ClearEach(s3, s3.children[n], keys, FALSE, TRUE) ELSE s2

\* clear_flagged_cache that resets the pending set without deleting.
clear_flagged_cache_reset_only(st, n, parents, chldrn) ==
    [st EXCEPT !.flagged[n] = {}]

\* clear_flagged_cache without the final self._flagged_for_deletion = set().
clear_flagged_cache_keep_pending(st, n, parents, chldrn) ==
    _clear_cache(st, n, st.flagged[n], parents, chldrn)

clear_flagged_cache(st, n, parents, chldrn) ==
    [_clear_cache(st, n, st.flagged[n], parents, chldrn) EXCEPT !.flagged[n] = {}]

clear_all_cache(st, n, chldrn, parents) ==
    clear_flagged_cache(flag_for_deletion(st, n, Range(get_all)), n, parents, chldrn)

----------------------------------------------------------------------------
\* set_last_action

RECURSIVE set_last_action(_, _, _)
RECURSIVE PushEach(_, _, _)

\* The loop with the mtime comparison left out: if pla: recurse.
PushEach_no_compare(st, items, la) ==
    IF items = <<>> THEN st
    ELSE LET p == Head(items)
             pla == get_cached_value(st.cache, p, LAST_ACTION)
         IN  PushEach(IF pla # <<>> THEN set_last_action(st, p, la) ELSE st,
                      Tail(items), la)

\* for p in parents: pla = get_cached_value(p, ...); if pla and ...: recurse
PushEach(st, items, la) ==
    IF items = <<>> THEN st
    ELSE LET p == Head(items)
             pla == get_cached_value(st.cache, p, LAST_ACTION)
         IN  PushEach(IF pla # <<>> /\ pla[1].mtime < la.mtime
                      THEN set_last_action(st, p, la)
                      ELSE st,
                      Tail(items), la)

\* set_last_action that writes its own entry and never walks to the parents.
set_last_action_no_push(st, n, la) ==
    [st EXCEPT !.cache = set_cached_value(@, n, LAST_ACTION, la)]

set_last_action(st, n, la) ==
    PushEach([st EXCEPT !.cache = set_cached_value(@, n, LAST_ACTION, la)],
             get_parents(n), la)

----------------------------------------------------------------------------
\* refresh_stats

RECURSIVE refresh_stats(_, _, _)
RECURSIVE RefreshEach(_, _)

\* for item in self.children: item.refresh_stats()
RefreshEach(st, items) ==
    IF items = <<>> THEN [st |-> st, exc |-> FALSE]
    ELSE LET h == refresh_stats(st, Head(items), TRUE)
         IN  IF h.exc THEN h ELSE RefreshEach(h.st, Tail(items))

\* The getters refresh_stats calls, in its order.
RefreshCalls ==
    <<TOTAL, TRANSLATED, FUZZY, SUGGESTIONS, LAST_ACTION, CHECKS, MTIME,
      LAST_UPDATED>>

\* The else belongs to the for loop, which has no break: it always runs
\* after the loop, and only when include_children is true.
refresh_stats(st, n, include_children) ==
    LET s1 == initialize_children(st, n)
        kids == IF include_children THEN RefreshEach(s1, s1.children[n])
                ELSE [st |-> s1, exc |-> FALSE]
        s2 == IF include_children THEN clear_all_cache(kids.st, n, FALSE, TRUE)
              ELSE s1
        r == CallAll(s2, n, RefreshCalls)
    IN  IF kids.exc THEN kids ELSE [st |-> r.st, exc |-> r.exc]

----------------------------------------------------------------------------
\* From-scratch recomputation of a statistic from raw data r alone.

RECURSIVE Aggregate(_, _, _)
RECURSIVE AggregateEach(_, _, _)

AggregateEach(r, items, key) ==
    IF items = <<>> THEN <<>>
    ELSE <<Aggregate(r, Head(items), key)>> \o AggregateEach(r, Tail(items), key)

Aggregate(r, n, key) ==
    LET own == r[<<n, key>>]
        kids == AggregateEach(r, get_children(n), key)
    IN  CASE key \in Counts -> own + sum(kids)
          [] key = LAST_ACTION -> max(<<own>> \o kids)
          [] key = MTIME -> MaxFromPlain(own, kids)
          [] key = LAST_UPDATED -> MaxFromCreationTime(own, kids)
          [] key = CHECKS -> AddChecks(own, kids)

RECURSIVE Descendants(_)
Descendants(n) ==
    UNION {{c} \cup Descendants(c) : c \in Range(get_children(n))}

RECURSIVE Ancestors(_)
Ancestors(n) ==
    UNION {{p} \cup Ancestors(p) : p \in Range(get_parents(n))}

----------------------------------------------------------------------------
\* The state after construction: TreeItem.__init__ and an empty cache.

\* nth tells a call from the same call made right before it.
\* exc tells that the call was left by an exception.
NoObs == [op |-> "none", node |-> "", keys |-> {}, ret |-> <<>>,
          raws |-> {}, gets |-> {}, nth |-> 0, exc |-> FALSE]

\* The data the nodes start with: the base class's values, and on the data
\* nodes a first action of their own.
InitRaw ==
    [k \in Nodes \X Range(get_all) |->
        IF k[2] = LAST_ACTION /\ k[1] \in DataNodes
        THEN [id |-> NodeId(k[1]), mtime |-> 0]
        ELSE Default(k[2])]

\* call is the outermost call the thread made last, cold whether the cache
\* held no entry of that call's method when it started, made the number of
\* calls the thread has made.
Idle ==
    [stack |-> <<>>, status |-> "idle", ret |-> <<>>, call |-> <<>>,
     cold |-> FALSE, made |-> 0]

Init ==
    /\ raw = InitRaw
    /\ cache = <<>>
    /\ flagged = [n \in Nodes |-> {}]
    /\ initialized = [n \in Nodes |-> FALSE]
    /\ children = [n \in Nodes |-> <<>>]
    /\ calls = [n \in Nodes |-> 0]
    /\ failing = {}
    /\ graph = "acyclic"
    /\ proc = Idle
    /\ obs = NoObs
    /\ reader = [node |-> "", stack |-> <<>>, ret |-> <<>>]
    /\ writer = [pc |-> "idle", node |-> "", todo |-> <<>>]
    /\ old = raw

Commit(st) ==
    /\ cache' = st.cache
    /\ flagged' = st.flagged
    /\ initialized' = st.initialized
    /\ children' = st.children
    /\ calls' = st.calls

\* What a read of name on n that ended as r leaves to be observed.
ReadObs(r, n, name) ==
    [NoObs EXCEPT !.op = "read", !.node = n, !.keys = {name},
                  !.ret = IF r.exc THEN <<>> ELSE <<r.val>>,
                  !.raws = r.st.raws, !.gets = r.st.gets,
                  !.exc = r.exc,
                  !.nth = IF obs.op = "read" /\ obs.node = n
                             /\ obs.keys = {name} /\ obs.nth = 1
                          THEN 2 ELSE 1]

ReadDone(r, n, name) ==
    /\ Commit(r.st)
    /\ obs' = ReadObs(r, n, name)

\* A caller reads an aggregate.
Read(n, name) ==
    /\ ReadDone(getattr(Start, n, name), n, name)
    /\ UNCHANGED <<raw, conc, env>>

\* The underlying data of n changes and the caller invalidates as the
\* protocol asks: flag_for_deletion(name), then clear_flagged_cache().
Update(n, name, v) ==
    /\ v # raw[<<n, name>>]
    /\ raw' = [raw EXCEPT ![<<n, name>>] = v]
    /\ Commit(clear_flagged_cache(flag_for_deletion(Start, n, {name}), n, TRUE, FALSE))
    /\ obs' = [NoObs EXCEPT !.op = "update", !.node = n, !.keys = {name}]
    /\ UNCHANGED <<conc, env>>

\* A caller reads an aggregate and the call is not observed.
Get(n, name) ==
    /\ Commit(getattr(Start, n, name).st)
    /\ obs' = NoObs
    /\ UNCHANGED <<raw, conc, env>>

RECURSIVE Pending(_, _)
Pending(f, ns) ==
    IF ns = {} THEN 0
    ELSE LET n == CHOOSE x \in ns : TRUE
         IN  Cardinality(f[n]) + Pending(f, ns \ {n})

\* flag_for_deletion(*args) on n.
FlagForDeletion(n, args) ==
    /\ Pending(flag_for_deletion(Start, n, args).flagged, Nodes) <= MaxPending
    /\ Commit(flag_for_deletion(Start, n, args))
    /\ obs' = [NoObs EXCEPT !.op = "flag_for_deletion", !.node = n]
    /\ UNCHANGED <<raw, conc, env>>

\* clear_flagged_cache(parents, children) on n.
ClearFlaggedCache(n, parents, chldrn) ==
    /\ Commit(clear_flagged_cache(Start, n, parents, chldrn))
    /\ obs' = [NoObs EXCEPT !.op = "clear_flagged_cache", !.node = n]
    /\ UNCHANGED <<raw, conc, env>>

\* clear_all_cache(children, parents) on n.
ClearAllCache(n, chldrn, parents) ==
    /\ Commit(clear_all_cache(Start, n, chldrn, parents))
    /\ obs' = NoObs
    /\ UNCHANGED <<raw, conc, env>>

\* The invalidation protocol on its own: reads fill the cache, callers flag
\* and clear in any order with any arguments.
Next ==
    \/ \E n \in Nodes, name \in Varied : Get(n, name)
    \/ \E n \in Nodes, args \in SUBSET Varied \ {{}} : FlagForDeletion(n, args)
    \/ \E n \in Nodes, parents \in BOOLEAN, chldrn \in BOOLEAN :
          ClearFlaggedCache(n, parents, chldrn)

Spec == Init /\ [][Next]_vars

\* The same with every clear_flagged_cache call made with its default
\* arguments, parents=True and children=False.
NextDefault ==
    \/ \E n \in Nodes, name \in Varied : Get(n, name)
    \/ \E n \in Nodes, args \in SUBSET Varied \ {{}} : FlagForDeletion(n, args)
    \/ \E n \in Nodes : ClearFlaggedCache(n, TRUE, FALSE)

SpecDefault == Init /\ [][NextDefault]_vars

\* The actions callers hand to set_last_action: new submissions.
Submissions == {[id |-> Cardinality(Nodes) + 1, mtime |-> t] : t \in 0..MaxTime}

\* set_last_action(last_action) on n.
SetLastAction(n, la) ==
    /\ Commit(set_last_action(Start, n, la))
    /\ obs' = [NoObs EXCEPT !.op = "set_last_action", !.node = n, !.ret = <<la>>]
    /\ UNCHANGED <<raw, conc, env>>

\* Last actions only: reads, protocol-following data changes, and
\* set_last_action with any submission on any node.
NextLastAction ==
    \/ \E n \in Nodes : Get(n, LAST_ACTION)
    \/ \E n \in DataNodes : \E v \in RawValues(n, LAST_ACTION) :
          Update(n, LAST_ACTION, v)
    \/ \E n \in Nodes, la \in Submissions : SetLastAction(n, la)

SpecLastAction == Init /\ [][NextLastAction]_vars

\* The underlying data of n changes and no invalidation has followed.
SetRaw(n, name, v) ==
    /\ v # raw[<<n, name>>]
    /\ raw' = [raw EXCEPT ![<<n, name>>] = v]
    /\ obs' = NoObs
    /\ UNCHANGED <<cache, flagged, initialized, children, calls, conc, env>>

\* refresh_stats(include_children) on n.
RefreshStats(n, include_children) ==
    /\ Commit(refresh_stats(Start, n, include_children).st)
    /\ obs' = [NoObs EXCEPT !.op = "refresh_stats", !.node = n,
                             !.ret = <<include_children>>]
    /\ UNCHANGED <<raw, conc, env>>

\* Word counts that change with no invalidation, reads, and the two calls
\* that are there to repair the cache: refresh_stats and clear_all_cache.
NextRefresh ==
    \/ \E n \in Nodes : Get(n, TOTAL)
    \/ \E n \in DataNodes : \E v \in RawValues(n, TOTAL) : SetRaw(n, TOTAL, v)
    \/ \E n \in Nodes, include_children \in BOOLEAN :
          RefreshStats(n, include_children)
    \/ \E n \in Nodes, parents \in BOOLEAN, chldrn \in BOOLEAN :
          ClearAllCache(n, chldrn, parents)

SpecRefresh == Init /\ [][NextRefresh]_vars

----------------------------------------------------------------------------
\* Two threads: a reader inside get_total_wordcount and a writer that changes
\* one node's raw word count and then calls flag_for_deletion and
\* clear_flagged_cache.  Each cache get, set and delete and each raw read or
\* write is one step; what a thread does on its own stack is part of the
\* step before it.

Frame(n) == [node |-> n, pc |-> "get", acc |-> 0, i |-> 1]

\* _sum's loop: call the next child's getter, or, past the last child, go on
\* to the decorator's cache.set.
Enter(stack, ch) ==
    LET top == stack[Len(stack)]
    IN  IF top.i <= Len(ch[top.node])
        THEN Append(stack, Frame(ch[top.node][top.i]))
        ELSE [stack EXCEPT ![Len(stack)].pc = "set"]

\* A getter returns v to the frames below it.
Return(r, stack, v, ch) ==
    IF stack = <<>>
    THEN [r EXCEPT !.stack = <<>>, !.ret = <<v>>]
    ELSE [r EXCEPT !.stack = Enter([stack EXCEPT ![Len(stack)].acc = @ + v,
                                                 ![Len(stack)].i = @ + 1], ch)]

Top == reader.stack[Len(reader.stack)]

Below == SubSeq(reader.stack, 1, Len(reader.stack) - 1)

\* A caller enters get_total_wordcount on n.
RStart(n) ==
    /\ reader.stack = <<>> /\ reader.ret = <<>>
    /\ reader' = [node |-> n, stack |-> <<Frame(n)>>, ret |-> <<>>]
    /\ UNCHANGED <<raw, cache, flagged, initialized, children, calls, obs, writer, old, env>>

\* getfromcache: cache.get; a hit returns, a miss goes on to the function.
RCacheGet ==
    /\ reader.stack # <<>> /\ Top.pc = "get"
    /\ reader' = IF CacheKey(Top.node, TOTAL) \in DOMAIN cache
                  THEN Return(reader, Below, cache[CacheKey(Top.node, TOTAL)], children)
                  ELSE [reader EXCEPT !.stack[Len(reader.stack)].pc = "raw"]
    /\ UNCHANGED <<raw, cache, flagged, initialized, children, calls, obs, writer, old, env>>

\* initialize_children(), then self._get_total_wordcount().
RRaw ==
    /\ reader.stack # <<>> /\ Top.pc = "raw"
    /\ LET st == initialize_children(Start, Top.node)
       IN  /\ initialized' = st.initialized
           /\ children' = st.children
           /\ calls' = st.calls
           /\ reader' = [reader EXCEPT !.stack =
                            Enter([reader.stack EXCEPT
                                     ![Len(reader.stack)].acc = _get_total_wordcount(Top.node)],
                                  st.children)]
    /\ UNCHANGED <<raw, cache, flagged, obs, writer, old, env>>

\* getfromcache: cache.set of the function's result, which is returned.
RCacheSet ==
    /\ reader.stack # <<>> /\ Top.pc = "set"
    /\ cache' = set_cached_value(cache, Top.node, TOTAL, Top.acc)
    /\ reader' = Return(reader, Below, Top.acc, children)
    /\ UNCHANGED <<raw, flagged, initialized, children, calls, obs, writer, old, env>>

\* The nodes _clear_cache(parents=True) deletes from, in the order of its
\* calls: the node, then each parent's own walk.
RECURSIVE ClearOrder(_)
RECURSIVE ClearOrderEach(_)
ClearOrderEach(items) ==
    IF items = <<>> THEN <<>>
    ELSE ClearOrder(Head(items)) \o ClearOrderEach(Tail(items))

ClearOrder(n) == <<n>> \o ClearOrderEach(get_parents(n))

\* The writer changes n's raw word count and flags the total for deletion.
WWrite(n, v) ==
    /\ writer.pc = "idle"
    /\ v # raw[<<n, TOTAL>>]
    /\ old' = raw
    /\ raw' = [raw EXCEPT ![<<n, TOTAL>>] = v]
    /\ flagged' = flag_for_deletion(Start, n, {TOTAL}).flagged
    /\ writer' = [pc |-> "clear", node |-> n, todo |-> ClearOrder(n)]
    /\ UNCHANGED <<cache, initialized, children, calls, obs, reader, env>>

\* clear_flagged_cache: one cache.delete of _clear_cache; after the last one
\* the pending set is reset.
WDelete ==
    /\ writer.pc = "clear"
    /\ cache' = Delete(cache, {CacheKey(Head(writer.todo), k) : k \in flagged[writer.node]})
    /\ IF Len(writer.todo) = 1
       THEN /\ writer' = [writer EXCEPT !.pc = "done", !.todo = <<>>]
            /\ flagged' = [flagged EXCEPT ![writer.node] = {}]
       ELSE /\ writer' = [writer EXCEPT !.todo = Tail(@)]
            /\ UNCHANGED flagged
    /\ UNCHANGED <<raw, initialized, children, calls, obs, reader, old, env>>

\* Earlier callers have read some totals before the two threads start.
Warm(n) ==
    /\ reader.stack = <<>> /\ reader.ret = <<>> /\ writer.pc = "idle"
    /\ Get(n, TOTAL)

NextConc ==
    \/ \E n \in Nodes : Warm(n)
    \/ \E n \in Nodes : RStart(n)
    \/ RCacheGet
    \/ RRaw
    \/ RCacheSet
    \/ \E n \in DataNodes : \E v \in RawValues(n, TOTAL) : WWrite(n, v)
    \/ WDelete

SpecConc == Init /\ [][NextConc]_vars

----------------------------------------------------------------------------
\* Snapshots and the memoized children: the calls that load a node's
\* children, over data that stays as it is.

\* initialize_children() on n.
InitializeChildren(n) ==
    /\ Commit(initialize_children(Start, n))
    /\ obs' = [NoObs EXCEPT !.op = "initialize_children", !.node = n,
                             !.nth = IF obs.op = "initialize_children"
                                        /\ obs.node = n /\ obs.nth = 1
                                     THEN 2 ELSE 1]
    /\ UNCHANGED <<raw, conc, env>>

\* get_stats(include_children) on n.
GetStatsDone(r, n, include_children) ==
    /\ Commit(r.st)
    /\ obs' = [NoObs EXCEPT !.op = "get_stats", !.node = n,
                             !.ret = <<include_children, r.val>>]

GetStats(n, include_children) ==
    /\ GetStatsDone(get_stats(Start, n, include_children), n, include_children)
    /\ UNCHANGED <<raw, conc, env>>

\* One critical quality check fails on a unit of each data node.
FailedCheck == [unit_count |-> 1, checks |-> [critical |-> 1]]

InitStats ==
    /\ raw = [InitRaw EXCEPT ![<<"B", CHECKS>>] = FailedCheck,
                              ![<<"D", CHECKS>>] = FailedCheck]
    /\ cache = <<>>
    /\ flagged = [n \in Nodes |-> {}]
    /\ initialized = [n \in Nodes |-> FALSE]
    /\ children = [n \in Nodes |-> <<>>]
    /\ calls = [n \in Nodes |-> 0]
    /\ failing = {}
    /\ graph = "acyclic"
    /\ proc = Idle
    /\ obs = NoObs
    /\ reader = [node |-> "", stack |-> <<>>, ret |-> <<>>]
    /\ writer = [pc |-> "idle", node |-> "", todo |-> <<>>]
    /\ old = raw

NextStats ==
    \/ \E n \in Nodes : InitializeChildren(n)
    \/ \E n \in Nodes : Get(n, TOTAL)
    \/ \E n \in Nodes, include_children \in BOOLEAN : GetStats(n, include_children)
    \/ \E n \in Nodes, include_children \in BOOLEAN :
          RefreshStats(n, include_children)
    \/ \E n \in Nodes, parents \in BOOLEAN : ClearAllCache(n, TRUE, parents)

SpecStats == InitStats /\ [][NextStats]_vars

----------------------------------------------------------------------------
\* The combination rules on their own: the data is drawn at the start and
\* stays as it is, and callers read.

Blank ==
    /\ cache = <<>>
    /\ flagged = [n \in Nodes |-> {}]
    /\ initialized = [n \in Nodes |-> FALSE]
    /\ children = [n \in Nodes |-> <<>>]
    /\ calls = [n \in Nodes |-> 0]
    /\ graph = "acyclic"
    /\ proc = Idle
    /\ reader = [node |-> "", stack |-> <<>>, ret |-> <<>>]
    /\ writer = [pc |-> "idle", node |-> "", todo |-> <<>>]
    /\ old = raw

\* Every node has a count of its own for one of the four counted
\* statistics, the one the callers read (kept in obs.keys).
InitSum ==
    /\ \E name \in Counts : \E v \in [Nodes -> 0..MaxCount] :
          /\ raw = [k \in DOMAIN InitRaw |->
                      IF k[2] = name THEN v[k[1]] ELSE InitRaw[k]]
          /\ obs = [NoObs EXCEPT !.keys = {name}]
    /\ failing = {}
    /\ Blank

NextSum == \E n \in Nodes, name \in obs.keys : Read(n, name)

SpecSum == InitSum /\ [][NextSum]_vars

\* The last actions a node's provider may return: with an mtime, or with
\* no mtime field at all.
Stamped(n) ==
    {[id |-> NodeId(n), mtime |-> t] : t \in 0..MaxStamp} \cup {[id |-> NodeId(n)]}

InitMax ==
    /\ \E v \in [Nodes -> UNION {Stamped(n) : n \in Nodes}] :
          /\ \A n \in Nodes : v[n] \in Stamped(n)
          /\ raw = [k \in DOMAIN InitRaw |->
                      IF k[2] = LAST_ACTION THEN v[k[1]] ELSE InitRaw[k]]
    /\ obs = NoObs
    /\ failing = {}
    /\ Blank

NextMax == \E n \in Nodes : Read(n, LAST_ACTION)

SpecMax == InitMax /\ [][NextMax]_vars

\* Failing providers: the data source of a node breaks and is repaired
\* while callers read totals and checks.
Break(n) ==
    /\ n \notin failing
    /\ failing' = failing \cup {n}
    /\ obs' = NoObs
    /\ UNCHANGED <<raw, cache, flagged, initialized, children, calls, conc,
                   graph, proc>>

Repair(n) ==
    /\ n \in failing
    /\ failing' = failing \ {n}
    /\ obs' = NoObs
    /\ UNCHANGED <<raw, cache, flagged, initialized, children, calls, conc,
                   graph, proc>>

NextFail ==
    \/ \E n \in Nodes : Break(n)
    \/ \E n \in Nodes : Repair(n)
    \/ \E n \in Nodes, name \in {TOTAL, CHECKS} : Read(n, name)

SpecFail == Init /\ [][NextFail]_vars

NextCoherent ==
    \/ \E n \in Nodes, name \in Varied : Read(n, name)
    \/ \E n \in DataNodes, name \in Varied :
          \E v \in RawValues(n, name) : Update(n, name, v)

SpecCoherent == Init /\ [][NextCoherent]_vars

----------------------------------------------------------------------------
\* C1 (cache coherence): under reads and protocol-following updates, every
\* cache entry that is present equals the statistic recomputed from scratch
\* from the current raw data of the node and its descendants.
C1_Coherent ==
    \A k \in DOMAIN cache : cache[k] = Aggregate(raw, k[1], k[2])

\* A's total is cached after both data nodes were updated: B = 1 + D, C = D.
C1_Witness ==
    /\ CacheKey("A", TOTAL) \in DOMAIN cache
    /\ cache[CacheKey("A", TOTAL)] = 3
    /\ CacheKey("A", LAST_ACTION) \in DOMAIN cache
    /\ cache[CacheKey("A", LAST_ACTION)].mtime = 1

\* C3 (invalidation correctness): after flag_for_deletion(S) and
\* clear_flagged_cache on a node the cache holds no entry for (node, S), and
\* the very next read of S on that node invokes the node's raw provider and
\* returns the from-scratch recomputation of S from the current raw data.
C3_Step ==
    /\ obs'.op = "update" =>
          \A k \in obs'.keys : CacheKey(obs'.node, k) \notin DOMAIN cache'
    /\ (obs.op = "update" /\ obs'.op = "read" /\ obs'.node = obs.node
            /\ obs'.keys = obs.keys) =>
          /\ obs'.node \in obs'.raws
          /\ \A k \in obs'.keys : obs'.ret = <<Aggregate(raw', obs'.node, k)>>

C3_InvalidationCorrect == [][C3_Step]_vars

\* D was invalidated after its raw count changed and then read again.
C3_Witness ==
    /\ obs.op = "read" /\ obs.node = "B" /\ obs.keys = {TOTAL}
    /\ obs.raws = {"B"} /\ obs.ret = <<2>>

\* C8 (idempotent read): a getter called twice in succession on the same
\* node returns the same value both times, and the second call invokes no
\* raw provider and no child's getter.
C8_Step ==
    (obs.op = "read" /\ obs'.op = "read" /\ obs'.node = obs.node
        /\ obs'.keys = obs.keys) =>
      /\ obs'.ret = obs.ret
      /\ obs'.raws = {}
      /\ obs'.gets = {}

C8_IdempotentRead == [][C8_Step]_vars

\* The second of two reads of A's total in a row, after both data nodes
\* were updated.
C8_Witness ==
    /\ obs.op = "read" /\ obs.node = "A" /\ obs.keys = {TOTAL}
    /\ obs.raws = {} /\ obs.gets = {} /\ obs.ret = <<3>> /\ obs.nth = 2

\* C2 (upward propagation): after clear_flagged_cache(parents=True) on N,
\* for every name S pending on N at the call the cache holds no entry for S
\* on N nor on any node reachable from N by get_parents() steps.
C2_Step ==
    (/\ obs'.op = "clear_flagged_cache"
     /\ \E c \in BOOLEAN : ClearFlaggedCache(obs'.node, TRUE, c)) =>
        \A k \in flagged[obs'.node], m \in {obs'.node} \cup Ancestors(obs'.node) :
            CacheKey(m, k) \notin DOMAIN cache'

C2_UpwardPropagation == [][C2_Step]_vars

\* D was cleared: the total is gone from D and from B, C and A above it,
\* while the last actions, which were not pending, are all still cached.
C2_Witness ==
    /\ obs.op = "clear_flagged_cache" /\ obs.node = "D"
    /\ \A m \in Nodes : CacheKey(m, TOTAL) \notin DOMAIN cache
    /\ \A m \in Nodes : CacheKey(m, LAST_ACTION) \in DOMAIN cache

\* C9 (pending-set protocol): the pending set starts empty;
\* flag_for_deletion adds the given names as a set union and deletes nothing
\* from the cache; clear_flagged_cache deletes the node's entry for every
\* name pending at the call and leaves the node's pending set empty, so a
\* second clear_flagged_cache without new flags deletes no entry.
C9_Step ==
    /\ obs'.op = "flag_for_deletion" =>
          \A args \in SUBSET Varied :
              FlagForDeletion(obs'.node, args) =>
                /\ flagged' = [flagged EXCEPT ![obs'.node] = flagged[obs'.node] \cup args]
                /\ cache' = cache
    /\ obs'.op = "clear_flagged_cache" =>
          /\ \A k \in flagged[obs'.node] : CacheKey(obs'.node, k) \notin DOMAIN cache'
          /\ flagged' = [flagged EXCEPT ![obs'.node] = {}]
    /\ (obs.op = "clear_flagged_cache" /\ obs'.op = "clear_flagged_cache"
            /\ obs'.node = obs.node) =>
          cache' = cache

C9_PendingProtocol ==
    /\ \A n \in Nodes : flagged[n] = {}
    /\ [][C9_Step]_vars

\* B was cleared with parents=False: its entries are gone and its pending
\* set is empty, while A, which was filled through B, still has its own.
C9_Witness ==
    /\ obs.op = "clear_flagged_cache" /\ obs.node = "B"
    /\ flagged["B"] = {}
    /\ \A k \in Varied :
          /\ CacheKey("B", k) \notin DOMAIN cache
          /\ CacheKey("A", k) \in DOMAIN cache

----------------------------------------------------------------------------
\* set_last_action claims

Cached(c, n) == CacheKey(n, LAST_ACTION) \in DOMAIN c

Older(c, n, la) == Cached(c, n) /\ c[CacheKey(n, LAST_ACTION)].mtime < la.mtime

\* The nodes a call on n reaches when it goes on to every parent whose entry
\* is cached and older than la.
RECURSIVE PushedTo(_, _, _)
PushedTo(c, n, la) ==
    {n} \cup UNION {PushedTo(c, p, la) :
                      p \in {q \in Range(get_parents(n)) : Older(c, q, la)}}

\* The same when it also goes on to every parent with no entry.
RECURSIVE PushedToIfAbsent(_, _, _)
PushedToIfAbsent(c, n, la) ==
    {n} \cup UNION {PushedToIfAbsent(c, p, la) :
                      p \in {q \in Range(get_parents(n)) :
                                ~Cached(c, q) \/ Older(c, q, la)}}

\* The ancestors of n joined to n by parents that all hold an entry.
RECURSIVE CachedAbove(_, _)
CachedAbove(c, n) ==
    UNION {{p} \cup CachedAbove(c, p) :
             p \in {q \in Range(get_parents(n)) : Cached(c, q)}}

\* C4 as stated: set_last_action goes on to every parent whose cached
\* last_action is absent or older, and that parent's entry becomes the action.
C4_Step_AsStated ==
    obs'.op = "set_last_action" =>
        \A m \in PushedToIfAbsent(cache, obs'.node, obs'.ret[1]) :
            /\ Cached(cache', m)
            /\ cache'[CacheKey(m, LAST_ACTION)] = obs'.ret[1]

C4_AsStated == [][C4_Step_AsStated]_vars

\* C4 (amended): set_last_action goes on, with the same action, to every
\* parent whose cached last_action is present and older, and that parent's
\* entry becomes the action; a parent with no cached last_action is left
\* without one, and every other entry is left as it was.
C4_Step ==
    obs'.op = "set_last_action" =>
        LET la == obs'.ret[1]
            to == PushedTo(cache, obs'.node, la)
        IN  /\ \A m \in to :
                  Cached(cache', m) /\ cache'[CacheKey(m, LAST_ACTION)] = la
            /\ \A k \in (Nodes \ to) \X Range(get_all) :
                  /\ k \in DOMAIN cache' <=> k \in DOMAIN cache
                  /\ k \in DOMAIN cache => cache'[k] = cache[k]

C4_PushToCachedOlderParents == [][C4_Step]_vars

\* set_last_action on D with a newer submission while B holds an older
\* entry and C holds none: B now holds the submission, C still nothing.
C4_Witness ==
    /\ obs.op = "set_last_action" /\ obs.node = "D" /\ obs.ret[1].mtime > 0
    /\ Cached(cache, "B") /\ cache[CacheKey("B", LAST_ACTION)] = obs.ret[1]
    /\ ~Cached(cache, "C")

\* C5: once a call has finished, every cached last_action has an mtime not
\* older than the newest raw last action among the node and its descendants.
C5_NeverOlder ==
    \A n \in Nodes :
        Cached(cache, n) =>
            cache[CacheKey(n, LAST_ACTION)].mtime
                >= Aggregate(raw, n, LAST_ACTION).mtime

\* C6 as stated: after set_last_action with an action newer than every
\* ancestor's cached last_action, every ancestor's cached last_action (read
\* here as: of those ancestors that have one) is that action; a second call on the node with an older action leaves all
\* ancestors unchanged.
C6_Step_AsStated ==
    /\ (/\ obs'.op = "set_last_action"
         /\ \A m \in Ancestors(obs'.node) :
               Cached(cache, m) => Older(cache, m, obs'.ret[1])) =>
            \A m \in Ancestors(obs'.node) :
                Cached(cache', m) =>
                    cache'[CacheKey(m, LAST_ACTION)] = obs'.ret[1]
    /\ (/\ obs.op = "set_last_action" /\ obs'.op = "set_last_action"
         /\ obs'.node = obs.node /\ obs'.ret[1].mtime < obs.ret[1].mtime) =>
            \A m \in Ancestors(obs'.node), k \in Range(get_all) :
                get_cached_value(cache', m, k) = get_cached_value(cache, m, k)

C6_Step ==
    /\ (/\ obs'.op = "set_last_action"
         /\ \A m \in Ancestors(obs'.node) :
               Cached(cache, m) => Older(cache, m, obs'.ret[1])) =>
            /\ \A m \in CachedAbove(cache, obs'.node) :
                  /\ Cached(cache', m)
                  /\ cache'[CacheKey(m, LAST_ACTION)] = obs'.ret[1]
            /\ \A m \in Ancestors(obs'.node) :
                  ~Cached(cache, m) => ~Cached(cache', m)
    /\ (/\ obs.op = "set_last_action" /\ obs'.op = "set_last_action"
         /\ obs'.node = obs.node /\ obs'.ret[1].mtime < obs.ret[1].mtime) =>
            \A m \in Ancestors(obs'.node), k \in Range(get_all) :
                get_cached_value(cache', m, k) = get_cached_value(cache, m, k)

----------------------------------------------------------------------------
\* C7: after refresh_stats(include_children) returns, for either value of
\* include_children, each of the node's statistics is cached and equals the
\* from-scratch recomputation from the current raw data.
C7_RefreshRecomputes ==
    obs.op = "refresh_stats" =>
        \A name \in Range(get_all) :
            /\ CacheKey(obs.node, name) \in DOMAIN cache
            /\ cache[CacheKey(obs.node, name)] = Aggregate(raw, obs.node, name)

\* The same for include_children=True alone.
C7_RefreshWithChildren ==
    (obs.op = "refresh_stats" /\ obs.ret = <<TRUE>>) =>
        \A name \in Range(get_all) :
            /\ CacheKey(obs.node, name) \in DOMAIN cache
            /\ cache[CacheKey(obs.node, name)] = Aggregate(raw, obs.node, name)

----------------------------------------------------------------------------
\* C10: the value a read returns while a writer changes raw data and
\* invalidates is the aggregate of the raw data as it was before the change
\* or the aggregate of the raw data as it is after it, never a combination.
C10_NoMixedRead ==
    reader.ret # <<>> =>
        reader.ret[1] \in {Aggregate(old, reader.node, TOTAL),
                           Aggregate(raw, reader.node, TOTAL)}

----------------------------------------------------------------------------
\* C11 (child memoization): over any sequence of calls a node's
\* get_children() runs at most once; initialize_children called twice has
\* run it exactly once; and once initialized is true it stays true and the
\* stored children never change.
C11_Step ==
    /\ \A n \in Nodes :
          initialized[n] => (initialized'[n] /\ children'[n] = children[n])
    /\ obs'.op = "initialize_children" =>
          /\ calls'[obs'.node] = 1
          /\ initialized'[obs'.node]
          /\ children'[obs'.node] = get_children(obs'.node)
    /\ (obs'.op = "initialize_children" /\ obs'.nth = 2) => calls' = calls

C11_ChildMemoization ==
    /\ [](\A n \in Nodes : calls[n] <= 1 /\ (initialized[n] <=> calls[n] = 1))
    /\ [][C11_Step]_vars

\* The second of two initialize_children() calls in a row on A, after its
\* children were cleared and read through get_stats as well.
C11_Witness ==
    /\ obs.op = "initialize_children" /\ obs.node = "A" /\ obs.nth = 2
    /\ calls["A"] = 1 /\ children["A"] = <<"B", "C">>
    /\ \A n \in Nodes : initialized[n]

----------------------------------------------------------------------------
\* The keys of a get_stats snapshot.
StatsKeys ==
    {"total", "translated", "fuzzy", "suggestions", "lastaction", "critical",
     "lastupdated"}

\* C15 as stated: the snapshot holds a value for every statistic of the
\* enumerated set, mtime and checks among them, plus the critical count,
\* which equals checks.unit_count.
C15_AsStated ==
    obs.op = "get_stats" =>
        LET result == obs.ret[2]
        IN  /\ StatsKeys \cup {"mtime", "checks"} \subseteq DOMAIN result
            /\ result.critical = result.checks.unit_count

\* The snapshot of n alone, from the raw data.
OwnSnapshot(n) ==
    [total |-> Aggregate(raw, n, TOTAL),
     translated |-> Aggregate(raw, n, TRANSLATED),
     fuzzy |-> Aggregate(raw, n, FUZZY),
     suggestions |-> Aggregate(raw, n, SUGGESTIONS),
     lastaction |-> Aggregate(raw, n, LAST_ACTION),
     critical |-> Aggregate(raw, n, CHECKS).unit_count,
     lastupdated |-> Aggregate(raw, n, LAST_UPDATED)]

\* C15 (amended): the snapshot holds total, translated, fuzzy, suggestions,
\* lastaction and lastupdated, each the value of its getter, and critical,
\* the unit_count of get_checks; it holds no mtime and no checks.  With
\* include_children true it also maps each immediate child to that child's
\* snapshot, which holds no children mapping; with include_children false
\* it holds no children mapping.
C15_Snapshot ==
    obs.op = "get_stats" =>
        LET result == obs.ret[2]
            kids == Range(get_children(obs.node))
        IN  /\ DOMAIN result \ {"children"} = StatsKeys
            /\ \A k \in StatsKeys : result[k] = OwnSnapshot(obs.node)[k]
            /\ "children" \in DOMAIN result <=> obs.ret[1]
            /\ obs.ret[1] =>
                  /\ DOMAIN result.children = {code(c) : c \in kids}
                  /\ \A c \in kids : result.children[code(c)] = OwnSnapshot(c)

\* get_stats(True) on A while a critical check fails on B and on D: D's
\* failure counts under B and under C.
C15_Witness ==
    /\ obs.op = "get_stats" /\ obs.node = "A" /\ obs.ret[1]
    /\ obs.ret[2].critical = 3
    /\ obs.ret[2].children["B"].critical = 2
    /\ obs.ret[2].children["C"].critical = 1

----------------------------------------------------------------------------
\* C12 (sum law): a read of one of the four counted statistics on a node
\* with no cache entry returns the node's raw count plus the aggregated
\* counts of its children, and stores that value as the node's entry.
C12_Step ==
    (/\ obs'.op = "read" /\ obs'.keys \subseteq Counts
     /\ \A name \in obs'.keys : CacheKey(obs'.node, name) \notin DOMAIN cache) =>
        \A name \in obs'.keys :
            LET n == obs'.node
                c == [i \in DOMAIN get_children(n) |->
                        cache'[CacheKey(get_children(n)[i], name)]]
            IN  /\ obs'.ret = <<raw[<<n, name>>] + sum(c)>>
                /\ CacheKey(n, name) \in DOMAIN cache'
                /\ cache'[CacheKey(n, name)] = obs'.ret[1]

C12_SumLaw == [][C12_Step]_vars

\* A cold read of the suggestion count on A when every node has one
\* suggestion: A's own, B's two and C's two.
C12_Witness ==
    /\ obs.op = "read" /\ obs.node = "A" /\ obs.keys = {SUGGESTIONS}
    /\ obs.raws # {} /\ obs.ret = <<5>>
    /\ raw[<<"A", SUGGESTIONS>>] = 1
    /\ cache[CacheKey("B", SUGGESTIONS)] = 2
    /\ cache[CacheKey("C", SUGGESTIONS)] = 2

\* C13 (max-by-field law): a read of the last action on a node with no
\* cache entry returns one of the records among the node's raw last action
\* and its children's aggregated last actions, one whose mtime is the
\* greatest of them, a record with no mtime counting as the least mtime, 0.
C13_Step ==
    (/\ obs'.op = "read" /\ obs'.keys = {LAST_ACTION}
     /\ CacheKey(obs'.node, LAST_ACTION) \notin DOMAIN cache) =>
        LET n == obs'.node
            records == {raw[<<n, LAST_ACTION>>]} \cup
                       {cache'[CacheKey(c, LAST_ACTION)] : c \in Range(get_children(n))}
            rank(x) == IF "mtime" \in DOMAIN x THEN x.mtime ELSE 0
        IN  /\ Len(obs'.ret) = 1
            /\ obs'.ret[1] \in records
            /\ \A x \in records : rank(obs'.ret[1]) >= rank(x)

C13_MaxLaw == [][C13_Step]_vars

\* A's own action has mtime 1, B's aggregate has no mtime and C's has
\* mtime 2: the read returns C's record.
C13_Witness ==
    /\ obs.op = "read" /\ obs.node = "A" /\ obs.keys = {LAST_ACTION}
    /\ obs.raws # {}
    /\ raw[<<"A", LAST_ACTION>>] = [id |-> 1, mtime |-> 1]
    /\ cache[CacheKey("B", LAST_ACTION)] = [id |-> 2]
    /\ cache[CacheKey("C", LAST_ACTION)] = [id |-> 3, mtime |-> 2]
    /\ obs.ret = <<[id |-> 3, mtime |-> 2]>>

\* The computation of the statistic on n fails: n has no cache entry and
\* its provider raises or the computation of one of its children fails.
RECURSIVE Fails(_, _, _)
Fails(c, n, name) ==
    /\ CacheKey(n, name) \notin DOMAIN c
    /\ \/ n \in failing
       \/ \E item \in Range(get_children(n)) : Fails(c, item, name)

\* C14 (all-or-nothing aggregation): when the computation of a child fails
\* during a read on a node with no cache entry, the read fails too, returns
\* no value and stores no entry for the node and the statistic.
C14_Step ==
    (/\ obs'.op = "read"
     /\ \A name \in obs'.keys :
          /\ CacheKey(obs'.node, name) \notin DOMAIN cache
          /\ \E item \in Range(get_children(obs'.node)) : Fails(cache, item, name)) =>
        /\ obs'.exc
        /\ obs'.ret = <<>>
        /\ \A name \in obs'.keys : CacheKey(obs'.node, name) \notin DOMAIN cache'

C14_AllOrNothing == [][C14_Step]_vars

\* A read of A's total failed in C, whose provider raises, after B's total
\* had been computed and stored by the same call.
C14_Witness ==
    /\ obs.op = "read" /\ obs.node = "A" /\ obs.keys = {TOTAL} /\ obs.exc
    /\ failing = {"C"} /\ obs.gets = {"B", "C", "D"}
    /\ CacheKey("B", TOTAL) \in DOMAIN cache
    /\ CacheKey("C", TOTAL) \notin DOMAIN cache
    /\ CacheKey("A", TOTAL) \notin DOMAIN cache

----------------------------------------------------------------------------
\* C16 (downward only): clear_flagged_cache(parents=False, children=True)
\* on N with pending names K deletes the entries for K on N and on every
\* descendant of N, and leaves the entries of every other node, the
\* ancestors of N and the other parents of N's descendants among them, as
\* they were.
C16_Step ==
    (/\ obs'.op = "clear_flagged_cache"
     /\ ClearFlaggedCache(obs'.node, FALSE, TRUE)) =>
        LET below == {obs'.node} \cup Descendants(obs'.node)
        IN  /\ \A m \in below, k \in flagged[obs'.node] :
                  CacheKey(m, k) \notin DOMAIN cache'
            /\ \A m \in Nodes \ below, k \in Range(get_all) :
                  get_cached_value(cache', m, k) = get_cached_value(cache, m, k)

C16_DownwardOnly == [][C16_Step]_vars

\* B was cleared downwards with the total pending: the total is gone from
\* B and D and still cached on A and on C, D's other parent.
C16_Witness ==
    /\ obs.op = "clear_flagged_cache" /\ obs.node = "B"
    /\ CacheKey("B", TOTAL) \notin DOMAIN cache
    /\ CacheKey("D", TOTAL) \notin DOMAIN cache
    /\ CacheKey("A", TOTAL) \in DOMAIN cache
    /\ CacheKey("C", TOTAL) \in DOMAIN cache
    /\ \A m \in Nodes : CacheKey(m, LAST_ACTION) \in DOMAIN cache

\* C17 (invalidation frame): clear_flagged_cache() with the default
\* arguments on N with pending names K changes only entries (M, S) with S in
\* K and M equal to N or an ancestor of N; the entries of N's descendants,
\* of unrelated nodes and of other statistics stay as they were, and so do
\* the pending sets of all nodes other than N.
C17_Step ==
    (/\ obs'.op = "clear_flagged_cache"
     /\ ClearFlaggedCache(obs'.node, TRUE, FALSE)) =>
        /\ \A m \in Nodes, k \in Range(get_all) :
              get_cached_value(cache', m, k) # get_cached_value(cache, m, k) =>
                  /\ k \in flagged[obs'.node]
                  /\ m \in {obs'.node} \cup Ancestors(obs'.node)
        /\ \A m \in Nodes \ {obs'.node} : flagged'[m] = flagged[m]

C17_Frame == [][C17_Step]_vars

\* B was cleared with the total pending while D had its last action
\* pending: the total is gone from B and A, still cached on C and D, the
\* last actions are all cached and D's pending set is as it was.
C17_Witness ==
    /\ obs.op = "clear_flagged_cache" /\ obs.node = "B"
    /\ flagged["D"] = {LAST_ACTION}
    /\ CacheKey("B", TOTAL) \notin DOMAIN cache
    /\ CacheKey("A", TOTAL) \notin DOMAIN cache
    /\ CacheKey("C", TOTAL) \in DOMAIN cache
    /\ CacheKey("D", TOTAL) \in DOMAIN cache
    /\ \A m \in Nodes : CacheKey(m, LAST_ACTION) \in DOMAIN cache

----------------------------------------------------------------------------
\* C20 (downward-closed cache presence): from an empty cache, under reads
\* and clear_flagged_cache() calls with the default arguments, whenever a
\* node has a cache entry for a statistic every descendant of the node has
\* one for that statistic too; an absent entry on a node means absent
\* entries on all its ancestors.
C20_DownwardClosed ==
    \A n \in Nodes, name \in Range(get_all) :
        CacheKey(n, name) \in DOMAIN cache =>
            \A d \in Descendants(n) : CacheKey(d, name) \in DOMAIN cache

\* After a clear on B with the total pending, and a read on C: the total
\* is cached on C and D below it and absent on B and A above it.
C20_Witness ==
    /\ obs.op = "none"
    /\ flagged["B"] = {} /\ initialized["B"]
    /\ CacheKey("B", TOTAL) \notin DOMAIN cache
    /\ CacheKey("A", TOTAL) \notin DOMAIN cache
    /\ CacheKey("C", TOTAL) \in DOMAIN cache
    /\ CacheKey("D", TOTAL) \in DOMAIN cache
    /\ CacheKey("A", LAST_ACTION) \in DOMAIN cache

----------------------------------------------------------------------------
\* C18: once a read on an ancestor of the changed node and the writer's
\* invalidation have both completed, no cache entry on the changed node or
\* on one of its ancestors holds a value computed from the raw data as it
\* was before the change: each such entry is absent or equal to the
\* aggregate of the current raw data.
C18_NoStaleEntry ==
    (/\ reader.ret # <<>> /\ writer.pc = "done"
     /\ reader.node \in Ancestors(writer.node)) =>
        \A m \in {writer.node} \cup Ancestors(writer.node) :
            CacheKey(m, TOTAL) \in DOMAIN cache =>
                cache[CacheKey(m, TOTAL)] = Aggregate(raw, m, TOTAL)

----------------------------------------------------------------------------
\* One thread executing one call step by step: proc.stack is the interpreter's
\* call stack, one frame per method that has been entered and not yet left.

\* The interpreter's recursion limit, scaled down: a call that would make the
\* stack deeper raises "maximum recursion depth exceeded".
RecursionLimit == 8

\* A method about to be entered. todo are the calls its body still has to
\* make, vals what its child getters have returned so far.
Entered(op, n) ==
    [op |-> op, node |-> n, pc |-> "enter", todo |-> <<>>, keys |-> {},
     parents |-> FALSE, chldrn |-> FALSE, la |-> DefaultAction,
     cond |-> FALSE, own |-> <<>>, vals |-> <<>>]

GetCall(n, name) == [Entered("getter", n) EXCEPT !.keys = {name}]

ClearCall(n, keys, parents, chldrn) ==
    [Entered("_clear_cache", n) EXCEPT
        !.keys = keys, !.parents = parents, !.chldrn = chldrn]

ClearFlaggedCall(n, parents, chldrn) ==
    [Entered("clear_flagged_cache", n) EXCEPT
        !.parents = parents, !.chldrn = chldrn]

ClearAllCall(n, chldrn, parents) ==
    [Entered("clear_all_cache", n) EXCEPT !.parents = parents, !.chldrn = chldrn]

\* cond: the call is made only if the parent's cached action is older.
PushCall(n, la, cond) ==
    [Entered("set_last_action", n) EXCEPT !.la = la, !.cond = cond]

RefreshCall(n, include_children) ==
    [Entered("refresh_stats", n) EXCEPT !.chldrn = include_children]

Cur == proc.stack[Len(proc.stack)]

Name(f) == CHOOSE k \in f.keys : TRUE

\* The thread goes on with frame f in place of the top one.
Goto(f) == proc' = [proc EXCEPT !.stack[Len(proc.stack)] = f]

\* The top method returns; a getter's value goes to the getter that called it.
Leave(v) ==
    LET d == Len(proc.stack)
    IN  IF d = 1
        THEN proc' = [proc EXCEPT !.stack = <<>>, !.status = "returned",
                                  !.ret = IF Cur.op = "getter" THEN <<v>> ELSE <<>>]
        ELSE proc' = [proc EXCEPT
                !.stack = [i \in 1..(d - 1) |->
                    IF i = d - 1 /\ Cur.op = "getter" /\ proc.stack[i].op = "getter"
                    THEN [proc.stack[i] EXCEPT !.vals = Append(@, v)]
                    ELSE proc.stack[i]]]

\* An exception nobody catches unwinds the whole stack.
Raise == proc' = [proc EXCEPT !.stack = <<>>, !.status = "raised", !.ret = <<>>]

\* What a getter's body makes of its own raw value and its children's values.
Combined(key, own, kids) ==
    CASE key \in Counts -> own + sum(kids)
      [] key = LAST_ACTION -> max(<<own>> \o kids)
      [] key = MTIME -> MaxFromPlain(own, kids)
      [] key = LAST_UPDATED -> MaxFromCreationTime(own, kids)
      [] key = CHECKS -> AddChecks(own, kids)

\* for p in parents: self._clear_cache(...): the node calls itself.
ParentCalls_self(f) ==
    LET ps == get_parents(f.node)
    IN  [i \in 1..Len(ps) |-> ClearCall(f.node, f.keys, ps # <<>>, FALSE)]

\* for p in parents: p._clear_cache(keys, parents=parents, children=False)
ParentCalls(f) ==
    LET ps == get_parents(f.node)
    IN  [i \in 1..Len(ps) |-> ClearCall(ps[i], f.keys, ps # <<>>, FALSE)]

\* A caller makes a call.
TStart(call) ==
    /\ proc.status # "running"
    /\ proc.made < MaxCalls
    /\ proc' = [stack |-> <<call>>, status |-> "running", ret |-> <<>>,
                call |-> <<call>>, made |-> proc.made + 1,
                cold |-> /\ call.op = "getter"
                         /\ \A n \in Nodes :
                                CacheKey(n, Name(call)) \notin DOMAIN cache]
    /\ UNCHANGED <<raw, cache, flagged, initialized, children, calls, obs,
                   conc, failing, graph>>

\* A caller flags the total of n while no call is running.
TFlag(n) ==
    /\ proc.status # "running"
    /\ TOTAL \notin flagged[n]
    /\ flagged' = [flagged EXCEPT ![n] = @ \cup {TOTAL}]
    /\ UNCHANGED <<raw, cache, initialized, children, calls, obs, conc, env>>

\* getfromcache: cache.get; a hit returns the entry.
TCacheGet ==
    /\ proc.status = "running"
    /\ Cur.op = "getter" /\ Cur.pc = "enter"
    /\ IF CacheKey(Cur.node, Name(Cur)) \in DOMAIN cache
       THEN Leave(cache[CacheKey(Cur.node, Name(Cur))])
       ELSE Goto([Cur EXCEPT !.pc = "miss"])
    /\ UNCHANGED <<raw, cache, flagged, initialized, children, calls, obs,
                   conc, failing, graph>>

\* The getter's body up to its first call of a child: initialize_children
\* and the raw provider (get_checks calls the provider first).
TCompute ==
    /\ proc.status = "running"
    /\ Cur.op = "getter" /\ Cur.pc = "miss"
    /\ LET n == Cur.node
           st == IF Name(Cur) = CHECKS /\ n \in failing THEN Start
                 ELSE initialize_children(Start, n)
       IN  /\ initialized' = st.initialized
           /\ children' = st.children
           /\ calls' = st.calls
           /\ IF n \in failing THEN Raise
              ELSE Goto([Cur EXCEPT
                      !.pc = "run", !.own = <<raw[<<n, Name(Cur)>>]>>,
                      !.todo = [i \in 1..Len(st.children[n]) |->
                                    GetCall(st.children[n][i], Name(Cur))]])
    /\ UNCHANGED <<raw, cache, flagged, obs, conc, failing, graph>>

\* The first statements of the other methods, up to their first call.
TEnter ==
    /\ proc.status = "running"
    /\ Cur.op # "getter" /\ Cur.pc = "enter"
    /\ LET f == Cur
           n == Cur.node
           st == IF f.op = "refresh_stats" THEN initialize_children(Start, n)
                 ELSE Start
           kids == st.children[n]
           ps == get_parents(n)
       IN  /\ initialized' = st.initialized
           /\ children' = st.children
           /\ calls' = st.calls
           /\ cache' =
                CASE f.op = "_clear_cache" ->
                        Delete(cache, {CacheKey(n, k) : k \in f.keys})
                  [] f.op = "set_last_action" ->
                        set_cached_value(cache, n, LAST_ACTION, f.la)
                  [] OTHER -> cache
           /\ flagged' =
                IF f.op = "clear_all_cache"
                THEN flag_for_deletion(Start, n, Range(get_all)).flagged
                ELSE flagged
           /\ Goto(CASE f.op = "_clear_cache" ->
                        [f EXCEPT !.pc = "up",
                                  !.todo = IF f.parents THEN ParentCalls(f)
                                           ELSE <<>>]
                     [] f.op = "clear_flagged_cache" ->
                        [f EXCEPT !.pc = "run",
                                  !.todo = <<ClearCall(n, flagged[n], f.parents,
                                                       f.chldrn)>>]
                     [] f.op = "clear_all_cache" ->
                        [f EXCEPT !.pc = "run",
                                  !.todo = <<ClearFlaggedCall(n, f.parents,
                                                              f.chldrn)>>]
                     [] f.op = "set_last_action" ->
                        [f EXCEPT !.pc = "run",
                                  !.todo = [i \in 1..Len(ps) |->
                                                PushCall(ps[i], f.la, TRUE)]]
                     [] f.op = "refresh_stats" ->
                        [f EXCEPT !.pc = "run",
                                  !.todo =
                                    (IF f.chldrn
                                     THEN [i \in 1..Len(kids) |->
                                               RefreshCall(kids[i], TRUE)]
                                          \o <<ClearAllCall(n, FALSE, TRUE)>>
                                     ELSE <<>>)
                                    \o [i \in 1..Len(RefreshCalls) |->
                                            GetCall(n, RefreshCalls[i])]])
    /\ UNCHANGED <<raw, obs, conc, failing, graph>>

\* _clear_cache after the loop over the parents: if children: ...
TDown ==
    /\ proc.status = "running"
    /\ Cur.op = "_clear_cache" /\ Cur.pc = "up" /\ Cur.todo = <<>>
    /\ LET n == Cur.node
           st == IF Cur.chldrn THEN initialize_children(Start, n) ELSE Start
       IN  /\ initialized' = st.initialized
           /\ children' = st.children
           /\ calls' = st.calls
           /\ Goto([Cur EXCEPT
                   !.pc = "run",
                   !.todo = IF Cur.chldrn
                            THEN [i \in 1..Len(st.children[n]) |->
                                      ClearCall(st.children[n][i], Cur.keys,
                                                FALSE, TRUE)]
                            ELSE <<>>])
    /\ UNCHANGED <<raw, cache, flagged, obs, conc, failing, graph>>

\* The next call of the top method's body: a new frame, unless the stack is
\* at the recursion limit. set_last_action first tests the parent's entry.
TCall ==
    /\ proc.status = "running"
    /\ Cur.pc \in {"up", "run"} /\ Cur.todo # <<>>
    /\ LET c == Head(Cur.todo)
           pla == get_cached_value(cache, c.node, LAST_ACTION)
           rest == [Cur EXCEPT !.todo = Tail(@)]
       IN  IF c.cond /\ ~(pla # <<>> /\ pla[1].mtime < c.la.mtime)
           THEN Goto(rest)
           ELSE IF Len(proc.stack) >= RecursionLimit
           THEN Raise
           ELSE proc' = [proc EXCEPT
                    !.stack = Append([proc.stack EXCEPT ![Len(proc.stack)] = rest],
                                     c)]
    /\ UNCHANGED <<raw, cache, flagged, initialized, children, calls, obs,
                   conc, failing, graph>>

\* The end of the top method's body: a getter stores and returns its result,
\* clear_flagged_cache empties the pending set.
TExit ==
    /\ proc.status = "running"
    /\ Cur.pc = "run" /\ Cur.todo = <<>>
    /\ LET f == Cur
           v == Combined(Name(f), f.own[1], f.vals)
       IN  /\ cache' = IF f.op = "getter"
                       THEN Put(cache, CacheKey(f.node, Name(f)), v)
                       ELSE cache
           /\ flagged' = IF f.op = "clear_flagged_cache"
                         THEN [flagged EXCEPT ![f.node] = {}]
                         ELSE flagged
           /\ Leave(IF f.op = "getter" THEN v ELSE <<>>)
    /\ UNCHANGED <<raw, initialized, children, calls, obs, conc, failing, graph>>

\* The calls a caller makes.
StartCalls ==
    UNION {{GetCall(n, TOTAL), GetCall(n, LAST_ACTION)}
           \cup {ClearFlaggedCall(n, p, c) : p \in BOOLEAN, c \in BOOLEAN}
           \cup {ClearAllCall(n, c, p) : p \in BOOLEAN, c \in BOOLEAN}
           \cup {RefreshCall(n, i) : i \in BOOLEAN}
           : n \in Nodes}
    \cup {PushCall("D", la, FALSE) : la \in Actions("D")}

\* The node graph is acyclic, or D has A as a child and A has D as a parent.
InitTerm ==
    /\ raw = InitRaw
    /\ cache = <<>>
    /\ flagged = [n \in Nodes |-> {}]
    /\ initialized = [n \in Nodes |-> FALSE]
    /\ children = [n \in Nodes |-> <<>>]
    /\ calls = [n \in Nodes |-> 0]
    /\ failing = {}
    /\ graph \in {"acyclic", "cyclic"}
    /\ proc = Idle
    /\ obs = NoObs
    /\ reader = [node |-> "", stack |-> <<>>, ret |-> <<>>]
    /\ writer = [pc |-> "idle", node |-> "", todo |-> <<>>]
    /\ old = raw

TStep == TCacheGet \/ TCompute \/ TEnter \/ TDown \/ TCall \/ TExit

NextTerm ==
    \/ \E call \in StartCalls : TStart(call)
    \/ TFlag("D")
    \/ TCacheGet
    \/ TCompute
    \/ TEnter
    \/ TDown
    \/ TCall
    \/ TExit

\* A thread that is in a call goes on executing it.
SpecTerm == InitTerm /\ [][NextTerm]_vars /\ WF_vars(TStep)

Finished == proc.status \in {"returned", "raised"}

\* The calls the statement says never terminate on a cycle: a getter with a
\* cold cache, and clear_flagged_cache(parents=True).
OnCycle ==
    /\ graph = "cyclic"
    /\ proc.call # <<>>
    /\ \/ proc.call[1].op = "getter" /\ proc.cold
       \/ proc.call[1].op = "clear_flagged_cache" /\ proc.call[1].parents

----------------------------------------------------------------------------
====
